---- MODULE Spec2Model ----
(***************************************************************************)
(* Verification model of the skyeye radar scope (pkg/radar/radar.go) and   *)
(* of the SimpleRadio-Standalone client supervisor (simpleradio Client.Run,*)
(* stored in src/pkg/encyclopedia/encyclopedia.go lines 42-186).           *)
(*                                                                         *)
(* Times are whole seconds.  Time 0 stands for Go's zero time.Time.        *)
(* Speeds are in units of 1/10000 knot and lengths in the distance covered *)
(* in one second at that speed, so length \div seconds is a speed.  The    *)
(* points lie on the meridian of longitude 0 or on the equator, in those   *)
(* length units.                                                           *)
(***************************************************************************)
EXTENDS Integers, Sequences, FiniteSets, TLC

VARIABLES
    contacts,         \* scope.contacts: unit ID -> trackfile (partial function)
    missionTime,      \* scope.missionTime
    bullseyes,        \* scope.bullseyes: coalition -> point (partial function)
    removalCallback,  \* scope.removalCallback is registered
    fadedCallback,    \* scope.fadedCallback is registered
    removedCalls,     \* unit ID -> number of removal callback invocations
    fadedCalls,       \* unit ID -> number of fade callback invocations
    handled,          \* history: the operation performed last, with its input
    seen,             \* history: unit ID -> frame time of the latest Updated
                      \*   event handled since the unit's trackfile was last removed
    lastSet,          \* history: coalition -> point of the latest SetBullseye
    probe,            \* the latest isMatch / isValidTrack evaluation
    ctx,              \* the context passed to Run (the SRS client's, or the scope's)
    run,              \* where client.Run is
    runErr,           \* what client.Run returned
    dataTask,         \* the goroutine running dataClient.Run
    audioTask,        \* the goroutine running audioClient.Run
    silence,          \* time.Since(audioClient.LastPing()), in seconds
    toTick,           \* seconds until the ticker's next tick
    tick,             \* ticker.C holds a tick
    ready,            \* dataReadyCh has been signalled and Run has received it
    wg,               \* the caller's WaitGroup: Add calls minus Done calls
    loop,             \* where the goroutine of scope.Run is
    fader,            \* where the goroutine running scope.collectFaded is
    declination       \* the latest scope.Declination evaluation

radarVars == <<contacts, missionTime, bullseyes, removalCallback, fadedCallback,
               removedCalls, fadedCalls, handled, seen, lastSet, probe>>

srsVars == <<ctx, run, runErr, dataTask, audioTask, silence, toTick, tick,
             ready, wg>>

taskVars == <<loop, fader, declination>>

vars == <<radarVars, srsVars, taskVars>>

-----------------------------------------------------------------------------
(* Bounds of the model *)

MaxID == 2
MaxFrames == 2
MaxSilence == 66

(* Program constants *)

Knot == 10000
SpeedFilter == 50
GCAge == 60
TickPeriod == 5
PingTimeout == 60

-----------------------------------------------------------------------------
(* Data *)

IDs == 1..MaxID
Coalitions == {"red", "blue"}
ZeroPoint == <<0, 0>>
Points == {<<0, 0>>, <<0, 500000>>, <<0, 500001>>}
FrameTimes == {10, 11}
MissionTimes == {70, 71}
ZeroFrame == [Time |-> 0, Point |-> ZeroPoint]
\* the frames the simulator sends in the ingestion specification
Frames == [Time : FrameTimes, Point : {<<0, 500000>>}]

\* brevity.ContactCategory values used by the filter
Aircraft == "Aircraft"
FixedWing == "FixedWing"
RotaryWing == "RotaryWing"
Categories == {Aircraft, FixedWing, RotaryWing}

\* encyclopedia.GetAircraftData: ACMI short name -> category, for known names
AircraftData == [n \in {"F-15C", "UH-1H"} |->
                    IF n = "F-15C" THEN FixedWing ELSE RotaryWing]
ACMINames == {"F-15C", "UH-1H", "UNKNOWN-1"}

AllLabels == [ID : IDs, ACMIName : ACMINames, Coalition : Coalitions]
\* the labels the simulator sends in the ingestion specification: unit 1
\* is reported under two different labels, every other unit under one
SimLabels == {l \in AllLabels :
                 \/ l.ACMIName = "F-15C" /\ l.Coalition = "blue"
                 \/ l.ID = 1 /\ l.ACMIName = "UNKNOWN-1" /\ l.Coalition = "red"}

Abs(x) == IF x < 0 THEN 0 - x ELSE x

-----------------------------------------------------------------------------
(* Trackfile (pkg/trackfiles): Labels plus frames, most recent first *)

NewTrackfile(labels) == [Contact |-> labels, Track |-> <<>>]

\* push to the front, trim the oldest beyond the retention
Update(t, frame) ==
    LET all == <<frame>> \o t.Track
    IN  [t EXCEPT !.Track = IF Len(all) > MaxFrames
                            THEN SubSeq(all, 1, MaxFrames) ELSE all]

LastKnown(t) == IF Len(t.Track) = 0 THEN ZeroFrame ELSE t.Track[1]

\* the great-circle distance of two points of one meridian or of the equator
\* (between a point of the meridian and one of the equator: the sum of the legs)
Distance(p, q) == Abs(p[1] - q[1]) + Abs(p[2] - q[2])
\* a speed above every finite one: a division by a zero time delta
SpeedInf == 1000 * SpeedFilter * Knot

Speed(t) ==
    IF Len(t.Track) < 2 THEN 0
    ELSE LET latest == t.Track[1]
             previous == t.Track[2]
             dt == latest.Time - previous.Time
             d == Distance(latest.Point, previous.Point)
         IN  IF d = 0 \/ dt < 0 THEN 0
             ELSE IF dt = 0 THEN SpeedInf
             ELSE d \div dt

-----------------------------------------------------------------------------
(* Contact database (contactDatabase): a map keyed by unit ID *)

newContactDatabase == <<>>
\* the second component is the "ok" result
getByID(db, id) == IF id \in DOMAIN db THEN <<db[id], TRUE>> ELSE <<<<>>, FALSE>>
set(db, t) == [i \in DOMAIN db \cup {t.Contact.ID} |->
                  IF i = t.Contact.ID THEN t ELSE db[i]]
delete(db, id) == [i \in DOMAIN db \ {id} |-> db[i]]
reset(db) == <<>>
values(db) == {db[i] : i \in DOMAIN db}


-----------------------------------------------------------------------------
(* Radar scope: event handlers as functions of the contact database *)

handleStartKeep(db) == db

\* the start case of scope.Run
handleStart(db) == reset(db)

handleUpdateRelabel(db, update) ==
    LET found == getByID(db, update.Labels.ID)
    IN  IF found[2]
        THEN set(db, [Update(found[1], update.Frame) EXCEPT !.Contact = update.Labels])
        ELSE set(db, NewTrackfile(update.Labels))

handleUpdate(db, update) ==
    LET found == getByID(db, update.Labels.ID)
    IN  IF found[2]
        THEN set(db, Update(found[1], update.Frame))
        ELSE set(db, NewTrackfile(update.Labels))

isAgedOutInclusive(t, mt) ==
    LET lastSeen == LastKnown(t).Time
    IN  lastSeen # 0 /\ lastSeen <= mt - GCAge

\* the test handleGarbageCollection applies to one trackfile
isAgedOut(t, mt) ==
    LET lastSeen == LastKnown(t).Time
        isOld == lastSeen < mt - GCAge
        isNotZero == lastSeen # 0
    IN  isNotZero /\ isOld

\* the unit IDs one sweep deletes
agedOut(db, mt) == {t.Contact.ID : t \in {x \in values(db) : isAgedOut(x, mt)}}

handleGarbageCollection(db, mt) ==
    [i \in DOMAIN db \ agedOut(db, mt) |-> db[i]]

\* the removal callback invocations one sweep makes: none
removalsInvoked(db, mt) == {}

-----------------------------------------------------------------------------
(* Radar scope: operations *)

NoUpdate == [Labels |-> [ID |-> 0, ACMIName |-> "", Coalition |-> ""],
             Frame |-> ZeroFrame]
NoProbe == [Trackfile |-> NewTrackfile(NoUpdate.Labels), Coalition |-> "",
            Filter |-> "", Valid |-> FALSE, Match |-> FALSE]
Never == <<-1, -1>>

Did(op, update, ids) == [op |-> op, update |-> update, ids |-> ids]

UpdateEvents == [Labels : SimLabels, Frame : Frames]

IngestInit ==
    /\ contacts = newContactDatabase
    /\ missionTime = 0
    /\ bullseyes = <<>>
    /\ removalCallback = FALSE
    /\ fadedCallback = FALSE
    /\ removedCalls = [i \in IDs |-> 0]
    /\ fadedCalls = [i \in IDs |-> 0]
    /\ handled = Did("new", NoUpdate, {})
    /\ seen = [i \in IDs |-> 0]
    /\ lastSet = [c \in Coalitions |-> Never]

NoError == [kind |-> "none", cause |-> "none", afterCancel |-> FALSE]

\* the SRS client as NewClient leaves it; LastPing starts at the construction
SRSInit ==
    /\ ctx = "active"
    /\ run = "start"
    /\ runErr = NoError
    /\ dataTask = "none"
    /\ audioTask = "none"
    /\ silence = 0
    /\ toTick = TickPeriod
    /\ tick = FALSE
    /\ ready = FALSE
    /\ wg = 0

RadarInit == IngestInit /\ probe = NoProbe

NoDeclination == [Point |-> ZeroPoint, Model |-> [value |-> 0, err |-> FALSE],
                  Angle |-> 0, Logged |-> FALSE]

\* scope.Run has not been called
TaskInit ==
    /\ loop = "new"
    /\ fader = "none"
    /\ declination = NoDeclination

HandleStart ==
    /\ contacts' = handleStart(contacts)
    /\ handled' = Did("start", NoUpdate, DOMAIN contacts)
    /\ seen' = [i \in IDs |-> 0]
    /\ UNCHANGED srsVars
    /\ UNCHANGED <<missionTime, bullseyes, removalCallback, fadedCallback,
                   removedCalls, fadedCalls, lastSet, probe>>

HandleUpdate(update) ==
    /\ contacts' = handleUpdate(contacts, update)
    /\ handled' = Did("update", update, {update.Labels.ID})
    /\ seen' = [seen EXCEPT ![update.Labels.ID] = update.Frame.Time]
    /\ UNCHANGED srsVars
    /\ UNCHANGED <<missionTime, bullseyes, removalCallback, fadedCallback,
                   removedCalls, fadedCalls, lastSet, probe>>

HandleGarbageCollection ==
    /\ contacts' = handleGarbageCollection(contacts, missionTime)
    /\ removedCalls' = [i \in IDs |->
            IF removalCallback /\ i \in removalsInvoked(contacts, missionTime)
            THEN removedCalls[i] + 1 ELSE removedCalls[i]]
    /\ handled' = Did("gc", NoUpdate, DOMAIN contacts \ DOMAIN contacts')
    /\ seen' = [i \in IDs |-> IF i \in DOMAIN contacts' THEN seen[i] ELSE 0]
    /\ UNCHANGED srsVars
    /\ UNCHANGED <<missionTime, bullseyes, removalCallback, fadedCallback,
                   fadedCalls, lastSet, probe>>

\* the recenter tick: the cached center point is not part of this model
HandleRecenter ==
    /\ handled' = Did("recenter", NoUpdate, {})
    /\ UNCHANGED srsVars
    /\ UNCHANGED <<contacts, missionTime, bullseyes, removalCallback, fadedCallback,
                   removedCalls, fadedCalls, seen, lastSet, probe>>

\* a Faded event for a unit that has a trackfile
HandleFaded(id) ==
    /\ id \in DOMAIN contacts
    /\ contacts' = delete(contacts, id)
    /\ fadedCalls' = [fadedCalls EXCEPT ![id] = IF fadedCallback THEN @ + 1 ELSE @]
    /\ handled' = Did("fade", NoUpdate, {id})
    /\ seen' = [seen EXCEPT ![id] = 0]
    /\ UNCHANGED srsVars
    /\ UNCHANGED <<missionTime, bullseyes, removalCallback, fadedCallback,
                   removedCalls, lastSet, probe>>

SetMissionTime(t) ==
    /\ missionTime' = t
    /\ handled' = Did("time", NoUpdate, {})
    /\ UNCHANGED srsVars
    /\ UNCHANGED <<contacts, bullseyes, removalCallback, fadedCallback,
                   removedCalls, fadedCalls, seen, lastSet, probe>>

SetRemovedCallback ==
    /\ removalCallback' = TRUE
    /\ handled' = Did("callback", NoUpdate, {})
    /\ UNCHANGED srsVars
    /\ UNCHANGED <<contacts, missionTime, bullseyes, fadedCallback,
                   removedCalls, fadedCalls, seen, lastSet, probe>>

Init == RadarInit /\ SRSInit /\ TaskInit

Next ==
    \/ HandleStart /\ UNCHANGED taskVars
    \/ \E update \in UpdateEvents : HandleUpdate(update) /\ UNCHANGED taskVars
    \/ HandleGarbageCollection /\ UNCHANGED taskVars
    \/ HandleRecenter /\ UNCHANGED taskVars
    \/ \E id \in IDs : HandleFaded(id) /\ UNCHANGED taskVars
    \/ \E t \in MissionTimes : SetMissionTime(t) /\ UNCHANGED taskVars
    \/ SetRemovedCallback /\ UNCHANGED taskVars

Spec == Init /\ [][Next]_vars


-----------------------------------------------------------------------------
(* Properties of the ingestion *)

\* C1: on a GC tick the registered removal callback is invoked exactly once
\* for every trackfile the tick deletes, and for no trackfile it keeps.
C1_RemovalCallbackInvoked ==
    [][(handled'.op = "gc" /\ removalCallback) =>
        \A i \in IDs :
            removedCalls'[i] = removedCalls[i] + (IF i \in handled'.ids THEN 1 ELSE 0)]_vars

\* C2: after an Updated event for unit i is handled (the one creating the
\* trackfile included) the trackfile of i has the event's frame as its
\* last-known frame, in front of the frames it held before.
C2_UpdateStoresFrame ==
    [][handled'.op = "update" =>
        LET update == handled'.update
            i == update.Labels.ID
        IN  /\ i \in DOMAIN contacts'
            /\ LastKnown(contacts'[i]) = update.Frame
            /\ i \in DOMAIN contacts =>
                   contacts'[i].Track =
                       SubSeq(<<update.Frame>> \o contacts[i].Track, 1,
                              IF Len(contacts[i].Track) < MaxFrames
                              THEN Len(contacts[i].Track) + 1 ELSE MaxFrames)]_vars

\* C3: a GC tick deletes exactly the trackfiles whose last frame time is
\* non-zero and strictly earlier than missionTime - 60 s; every other
\* trackfile (last frame time zero, or at most 60 s old) stays, unchanged.
C3_GCDeletesExactlyAgedOut ==
    [][handled'.op = "gc" =>
        \A i \in DOMAIN contacts :
            LET last == LastKnown(contacts[i]).Time
            IN  IF last # 0 /\ last < missionTime - GCAge
                THEN i \notin DOMAIN contacts'
                ELSE i \in DOMAIN contacts' /\ contacts'[i] = contacts[i]]_vars

\* a sweep has deleted a trackfile and kept one that is exactly 60 s old
C3_Witness ==
    /\ handled.op = "gc"
    /\ handled.ids # {}
    /\ \E i \in DOMAIN contacts :
           LastKnown(contacts[i]).Time = missionTime - GCAge

\* C4: a unit that received an Updated event with frame time T and none
\* since has no trackfile after a GC tick at a mission time beyond T + 60 s.
C4_StaleUnitAgedOut ==
    [][handled'.op = "gc" =>
        \A i \in IDs :
            (seen[i] # 0 /\ missionTime > seen[i] + GCAge) =>
                i \notin DOMAIN contacts']_vars

\* C5: after a Started event the contact database is empty, and the
\* trackfiles present at any time are of units updated since the last start.
C5_StartClears ==
    /\ handled.op = "start" => DOMAIN contacts = {}
    /\ DOMAIN contacts \subseteq {i \in IDs : seen[i] # 0}

\* a start has been handled while trackfiles were present
C5_Witness == handled.op = "start" /\ handled.ids # {}

\* C6: a unit has one trackfile, stored under its own ID; it stays in the
\* database, with the Labels it was created with, until a GC tick, a fade
\* or a start removes it.
C6_StableIdentity ==
    [][\A i \in DOMAIN contacts :
          /\ contacts[i].Contact.ID = i
          /\ handled'.op \notin {"gc", "fade", "start"} => i \in DOMAIN contacts'
          /\ i \in DOMAIN contacts' => contacts'[i].Contact = contacts[i].Contact]_vars

\* an update carrying other labels was handled for an existing trackfile
C6_Witness ==
    /\ handled.op = "update"
    /\ \E i \in DOMAIN contacts :
           /\ i = handled.update.Labels.ID
           /\ Len(contacts[i].Track) > 0
           /\ contacts[i].Contact # handled.update.Labels


-----------------------------------------------------------------------------
(* Bullseyes *)

\* sync.Map.LoadOrStore in place of Store
storeIfAbsent(m, coalition, bullseye) ==
    [c \in DOMAIN m \cup {coalition} |-> IF c \in DOMAIN m THEN m[c] ELSE bullseye]

\* s.bullseyes.Store(coalition, bullseye)
store(m, coalition, bullseye) ==
    [c \in DOMAIN m \cup {coalition} |-> IF c = coalition THEN bullseye ELSE m[c]]

Bullseye(coalition) ==
    IF coalition \in DOMAIN bullseyes THEN bullseyes[coalition] ELSE ZeroPoint

SetBullseye(bullseye, coalition) ==
    /\ bullseyes' = store(bullseyes, coalition, bullseye)
    /\ lastSet' = [lastSet EXCEPT ![coalition] = bullseye]
    /\ handled' = Did("bullseye", NoUpdate, {})
    /\ UNCHANGED srsVars
    /\ UNCHANGED <<contacts, missionTime, removalCallback, fadedCallback,
                   removedCalls, fadedCalls, seen, probe>>

\* the events of the bullseye specification: one unit, one label
BullseyeUpdates == {u \in UpdateEvents :
                       u.Labels.ID = 1 /\ u.Labels.Coalition = "blue"}

NextBullseye ==
    \/ \E p \in Points, c \in Coalitions : SetBullseye(p, c) /\ UNCHANGED taskVars
    \/ HandleStart /\ UNCHANGED taskVars
    \/ \E update \in BullseyeUpdates : HandleUpdate(update) /\ UNCHANGED taskVars
    \/ HandleGarbageCollection /\ UNCHANGED taskVars
    \/ \E t \in MissionTimes : SetMissionTime(t) /\ UNCHANGED taskVars

SpecBullseye == Init /\ [][NextBullseye]_vars

\* C7: Bullseye(c) is the zero point while SetBullseye was never called for
\* c and the point of the latest SetBullseye(p, c) afterwards, whatever was
\* set for the other coalition and whatever events were handled.
C7_BullseyeIsLatestSet ==
    \A c \in Coalitions :
        Bullseye(c) = IF lastSet[c] = Never THEN ZeroPoint ELSE lastSet[c]

\* an event was handled after blue's bullseye was set, red's never
C7_Witness ==
    /\ handled.op \in {"start", "update", "gc"}
    /\ lastSet["blue"] \in Points \ {ZeroPoint}
    /\ lastSet["red"] = Never
    /\ Bullseye("red") = ZeroPoint

-----------------------------------------------------------------------------
(* Validity and category filtering *)

\* spatial.IsZero
IsZero(p) == p[1] = 0 /\ p[2] = 0

\* encyclopedia.GetAircraftData; the second component is the "ok" result
GetAircraftData(name) ==
    IF name \in DOMAIN AircraftData THEN <<AircraftData[name], TRUE>>
    ELSE <<"", FALSE>>

isValidTrackInclusive(trackfile) ==
    /\ ~IsZero(LastKnown(trackfile).Point)
    /\ Speed(trackfile) >= SpeedFilter * Knot

isValidTrack(trackfile) ==
    LET isValidPosition == ~IsZero(LastKnown(trackfile).Point)
        isAboveSpeedFilter == Speed(trackfile) > SpeedFilter * Knot
        isValid == isValidPosition /\ isAboveSpeedFilter
    IN  isValid

isMatchKnownOnly(trackfile, coalition, filter) ==
    IF trackfile.Contact.Coalition # coalition THEN FALSE
    ELSE IF ~isValidTrack(trackfile) THEN FALSE
    ELSE LET found == GetAircraftData(trackfile.Contact.ACMIName)
         IN  (found[2] /\ found[1] = filter) \/ filter = Aircraft

isMatch(trackfile, coalition, filter) ==
    IF trackfile.Contact.Coalition # coalition THEN FALSE
    ELSE IF ~isValidTrack(trackfile) THEN FALSE
    ELSE LET found == GetAircraftData(trackfile.Contact.ACMIName)
             data == found[1]
             ok == found[2]
             matchesFilter == ~ok \/ data = filter \/ filter = Aircraft
         IN  matchesFilter

\* the trackfiles of unit 1 the filters are applied to
QueryPoints == Points \cup {<<1, 0>>}
QueryFrames == [Time : FrameTimes, Point : QueryPoints]
QueryTracks == UNION {[1..n -> QueryFrames] : n \in 0..MaxFrames}
QueryTrackfiles == {[Contact |-> l, Track |-> tr] :
                       l \in {x \in AllLabels : x.ID = 1}, tr \in QueryTracks}

\* one evaluation of the two filters on the inputs drawn
Probe ==
    /\ handled.op = "new"
    /\ probe' = [probe EXCEPT
                    !.Valid = isValidTrack(probe.Trackfile),
                    !.Match = isMatch(probe.Trackfile, probe.Coalition, probe.Filter)]
    /\ handled' = Did("query", NoUpdate, {})
    /\ UNCHANGED srsVars
    /\ UNCHANGED <<contacts, missionTime, bullseyes, removalCallback, fadedCallback,
                   removedCalls, fadedCalls, seen, lastSet>>

InitQuery ==
    /\ IngestInit
    /\ SRSInit
    /\ TaskInit
    /\ probe \in [Trackfile : QueryTrackfiles, Coalition : Coalitions,
                  Filter : Categories, Valid : {FALSE}, Match : {FALSE}]

NextQuery == Probe /\ UNCHANGED taskVars

SpecQuery == InitQuery /\ [][NextQuery]_vars

\* C8: isMatch(t, C, F) iff t's coalition is C, t is valid, and t's aircraft
\* type is absent from the encyclopedia or of category F, or F is the
\* any-aircraft wildcard.
C8_IsMatchIff ==
    handled.op = "query" =>
        LET t == probe.Trackfile
            name == t.Contact.ACMIName
        IN  probe.Match <=>
                /\ t.Contact.Coalition = probe.Coalition
                /\ probe.Valid
                /\ \/ name \notin DOMAIN AircraftData
                   \/ AircraftData[name] = probe.Filter
                   \/ probe.Filter = Aircraft

\* a valid contact of unknown type matched the rotary-wing filter
C8_Witness ==
    /\ handled.op = "query"
    /\ probe.Trackfile.Contact.ACMIName = "UNKNOWN-1"
    /\ probe.Filter = RotaryWing
    /\ probe.Match

\* C9: isValidTrack(t) iff t's last-known position is not (0,0) and t's
\* speed is strictly above 50 knots.
C9_IsValidIff ==
    handled.op = "query" =>
        LET t == probe.Trackfile
        IN  probe.Valid <=>
                /\ LastKnown(t).Point # <<0, 0>>
                /\ Speed(t) > 50 * Knot

\* a contact at exactly 50 knots, away from (0,0), was found invalid
C9_Witness ==
    /\ handled.op = "query"
    /\ LastKnown(probe.Trackfile).Point # <<0, 0>>
    /\ Speed(probe.Trackfile) = 50 * Knot
    /\ ~probe.Valid


-----------------------------------------------------------------------------
(* SimpleRadio-Standalone client: client.Run and its two goroutines.       *)
(* A task is "none" before its goroutine is spawned, "running" inside the  *)
(* data or audio client's Run, "serving" once the data client has signalled*)
(* readiness, "sending" while blocked in errorChan <- err, "exited" after. *)

radarUnchanged == UNCHANGED <<radarVars, taskVars>>

\* Run going on to spawn the audio goroutine without <-dataReadyCh
SpawnDataNoWait ==
    /\ run = "start"
    /\ wg' = wg + 1
    /\ dataTask' = "running"
    /\ run' = "spawnAudio"
    /\ UNCHANGED <<ctx, runErr, audioTask, silence, toTick, tick, ready>>
    /\ radarUnchanged

\* Run makes the channels and spawns the data goroutine
SpawnData ==
    /\ run = "start"
    /\ wg' = wg + 1
    /\ dataTask' = "running"
    /\ run' = "awaitReady"
    /\ UNCHANGED <<ctx, runErr, audioTask, silence, toTick, tick, ready>>
    /\ radarUnchanged

\* the data client signals readiness and Run receives it: <-dataReadyCh
DataReady ==
    /\ run = "awaitReady"
    /\ dataTask = "running"
    /\ dataTask' = "serving"
    /\ ready' = TRUE
    /\ run' = "spawnAudio"
    /\ UNCHANGED <<ctx, runErr, audioTask, silence, toTick, tick, wg>>
    /\ radarUnchanged

\* the audio goroutine spawned without wg.Add(1)
SpawnAudioUncounted ==
    /\ run = "spawnAudio"
    /\ audioTask' = "running"
    /\ toTick' = TickPeriod
    /\ tick' = FALSE
    /\ run' = "supervise"
    /\ UNCHANGED <<ctx, runErr, dataTask, silence, ready, wg>>
    /\ radarUnchanged

\* Run spawns the audio goroutine and starts the ticker
SpawnAudio ==
    /\ run = "spawnAudio"
    /\ wg' = wg + 1
    /\ audioTask' = "running"
    /\ toTick' = TickPeriod
    /\ tick' = FALSE
    /\ run' = "supervise"
    /\ UNCHANGED <<ctx, runErr, dataTask, silence, ready>>
    /\ radarUnchanged

\* Run returns: the deferred ticker.Stop() runs.  The returned value is
\* recorded with whether ctx was cancelled when Run returned.
Return(err) ==
    /\ run' = "returned"
    /\ runErr' = [kind |-> err.kind, cause |-> err.cause,
                  afterCancel |-> ctx = "cancelled"]
    /\ toTick' = TickPeriod
    /\ tick' = FALSE

\* the ctx.Done case taken whether or not ctx is cancelled
SuperviseDoneUnguarded ==
    /\ run = "supervise"
    /\ Return([kind |-> "cancelled", cause |-> "ctx"])
    /\ UNCHANGED <<ctx, dataTask, audioTask, silence, ready, wg>>
    /\ radarUnchanged

\* case <-ctx.Done()
SuperviseDone ==
    /\ run = "supervise"
    /\ ctx = "cancelled"
    /\ Return([kind |-> "cancelled", cause |-> "ctx"])
    /\ UNCHANGED <<ctx, dataTask, audioTask, silence, ready, wg>>
    /\ radarUnchanged

\* case err := <-errorChan, from the data goroutine
SuperviseDataError ==
    /\ run = "supervise"
    /\ dataTask = "sending"
    /\ dataTask' = "exited"
    /\ wg' = wg - 1
    /\ Return([kind |-> "client", cause |-> "data"])
    /\ UNCHANGED <<ctx, audioTask, silence, ready>>
    /\ radarUnchanged

\* case err := <-errorChan, from the audio goroutine
SuperviseAudioError ==
    /\ run = "supervise"
    /\ audioTask = "sending"
    /\ audioTask' = "exited"
    /\ wg' = wg - 1
    /\ Return([kind |-> "client", cause |-> "audio"])
    /\ UNCHANGED <<ctx, dataTask, silence, ready>>
    /\ radarUnchanged

pingsStoppedInclusive(sincePing) == sincePing >= PingTimeout

\* time.Since(c.audioClient.LastPing()) > 1*time.Minute
pingsStopped(sincePing) == sincePing > PingTimeout

\* case <-ticker.C
SuperviseTick ==
    /\ run = "supervise"
    /\ tick
    /\ IF pingsStopped(silence)
       THEN Return([kind |-> "liveness", cause |-> "pings"])
       ELSE /\ tick' = FALSE
            /\ UNCHANGED <<run, runErr, toTick>>
    /\ UNCHANGED <<ctx, dataTask, audioTask, silence, ready, wg>>
    /\ radarUnchanged

\* dataClient.Run returns a non-nil error: the goroutine reaches errorChan <- err
DataFails ==
    /\ dataTask \in {"running", "serving"}
    /\ dataTask' = "sending"
    /\ UNCHANGED <<ctx, run, runErr, audioTask, silence, toTick, tick, ready, wg>>
    /\ radarUnchanged

\* dataClient.Run returns nil after the context is cancelled
DataExits ==
    /\ dataTask \in {"running", "serving"}
    /\ ctx = "cancelled"
    /\ dataTask' = "exited"
    /\ wg' = wg - 1
    /\ UNCHANGED <<ctx, run, runErr, audioTask, silence, toTick, tick, ready>>
    /\ radarUnchanged

\* audioClient.Run returns a non-nil error: the goroutine reaches errorChan <- err
AudioFails ==
    /\ audioTask = "running"
    /\ audioTask' = "sending"
    /\ UNCHANGED <<ctx, run, runErr, dataTask, silence, toTick, tick, ready, wg>>
    /\ radarUnchanged

\* audioClient.Run returns nil after the context is cancelled
AudioExits ==
    /\ audioTask = "running"
    /\ ctx = "cancelled"
    /\ audioTask' = "exited"
    /\ wg' = wg - 1
    /\ UNCHANGED <<ctx, run, runErr, dataTask, silence, toTick, tick, ready>>
    /\ radarUnchanged

\* the audio client receives a ping acknowledgement and records the time
PingAck ==
    /\ audioTask = "running"
    /\ silence' = 0
    /\ UNCHANGED <<ctx, run, runErr, dataTask, audioTask, toTick, tick, ready, wg>>
    /\ radarUnchanged

\* the caller cancels the context
Cancel ==
    /\ ctx = "active"
    /\ ctx' = "cancelled"
    /\ UNCHANGED <<run, runErr, dataTask, audioTask, silence, toTick, tick, ready, wg>>
    /\ radarUnchanged

\* one second of wall time passes; a running ticker ticks every TickPeriod
\* seconds into its channel of capacity one
Second ==
    /\ silence < MaxSilence
    /\ silence' = silence + 1
    /\ IF run = "supervise"
       THEN IF toTick = 1
            THEN toTick' = TickPeriod /\ tick' = TRUE
            ELSE toTick' = toTick - 1 /\ tick' = tick
       ELSE UNCHANGED <<toTick, tick>>
    /\ UNCHANGED <<ctx, run, runErr, dataTask, audioTask, ready, wg>>
    /\ radarUnchanged

NextSRS ==
    \/ SpawnData
    \/ DataReady
    \/ SpawnAudio
    \/ SuperviseDone
    \/ SuperviseDataError
    \/ SuperviseAudioError
    \/ SuperviseTick
    \/ DataFails
    \/ DataExits
    \/ AudioFails
    \/ AudioExits
    \/ PingAck
    \/ Cancel
    \/ Second

SpecSRS == Init /\ [][NextSRS]_vars

\* C10: a tick Run handles while supervising ends Run with the "stopped
\* receiving pings" error if now - LastPing exceeds 60 s, and leaves Run
\* supervising if it is at most 60 s; Run returns that error at no other step.
C10_Watchdog ==
    [][/\ (run = "supervise" /\ tick /\ ~tick' /\ run' = "supervise") =>
              silence <= 60
       /\ (run = "supervise" /\ tick /\ silence > 60 /\ ctx = "active"
             /\ dataTask # "sending" /\ audioTask # "sending" /\ run' # run) =>
              runErr'.kind = "liveness"
       /\ (runErr'.kind = "liveness" /\ runErr.kind # "liveness") =>
              run = "supervise" /\ tick /\ silence > 60 /\ run' = "returned"]_vars

\* Run has returned the liveness error while no ping has arrived since
C10_Witness ==
    /\ run = "returned"
    /\ runErr.kind = "liveness"
    /\ silence > 60
    /\ audioTask = "running"

-----------------------------------------------------------------------------
(* Subtasks and the WaitGroup *)

\* a goroutine that was spawned and has not reached its deferred wg.Done()
live(task) == IF task \in {"running", "serving", "sending"} THEN 1 ELSE 0

\* C11 as stated: when Run has returned on the cancellation of ctx, every
\* subtask it spawned has already exited.
C11_SubtasksExitedAtReturn ==
    (run = "returned" /\ runErr.kind = "cancelled") =>
        live(dataTask) = 0 /\ live(audioTask) = 0

\* C11, amended: Run returns on cancellation without waiting for its
\* subtasks; each subtask is counted in the caller's WaitGroup from its spawn
\* to its exit, so the counter, not Run's return, tells that they have exited.
C11_WaitGroupCountsSubtasks ==
    /\ wg = live(dataTask) + live(audioTask)
    /\ (run = "returned" /\ runErr.kind = "cancelled") => ctx = "cancelled"

\* Run has returned the cancellation error while both subtasks still run
C11_Witness ==
    /\ run = "returned"
    /\ runErr.kind = "cancelled"
    /\ dataTask = "serving"
    /\ audioTask = "running"
    /\ wg = 2

-----------------------------------------------------------------------------
(* Goroutines that can never finish *)

\* the goroutine is blocked in errorChan <- err and Run, the only receiver
\* of the unbuffered channel, has returned
leaked(task) == task = "sending" /\ run = "returned"

\* Run is blocked in <-dataReadyCh and the data goroutine is past the point
\* where dataClient.Run could signal readiness
stuckAwaitingReady == run = "awaitReady" /\ dataTask \in {"sending", "exited"}

\* C12: after the cancellation of ctx every task Run spawned can still reach
\* its wg.Done(): no goroutine is blocked for ever sending on errorChan, and
\* Run is not blocked for ever waiting for the data-ready signal.
C12_CancellationDrainsTasks ==
    ctx = "cancelled" =>
        /\ ~leaked(dataTask)
        /\ ~leaked(audioTask)
        /\ ~stuckAwaitingReady

-----------------------------------------------------------------------------
(* Propagation of a subtask's error *)

\* the steps of Run itself
RunStep ==
    \/ SpawnData
    \/ DataReady
    \/ SpawnAudio
    \/ SuperviseDone
    \/ SuperviseDataError
    \/ SuperviseAudioError
    \/ SuperviseTick

\* a subtask's client has returned a non-nil error that Run has not received
errorPending == dataTask = "sending" \/ audioTask = "sending"

\* C13: while ctx is not cancelled, an error returned by the data or the
\* audio client, before or after readiness, reaches Run: Run, if it has not
\* returned yet, is not blocked, so that it goes on to return that error.
C13_ErrorReachesRun ==
    (errorPending /\ ctx = "active" /\ run # "returned") => ENABLED RunStep

\* C14: once Run has returned a subtask's error or the liveness error, the
\* subtasks that remain have been cancelled: each one has exited or its
\* context is cancelled, so that none runs on indefinitely.
C14_PeersCancelledOnError ==
    (run = "returned" /\ runErr.kind \in {"client", "liveness"}) =>
        \/ ctx = "cancelled"
        \/ live(dataTask) + live(audioTask) = 0

-----------------------------------------------------------------------------
(* Cancellation against the other reasons to return *)

\* C15 as stated: Run returns the cancellation error exactly when ctx is
\* cancelled at the moment it returns, never a client or liveness error then.
C15_CancellationExactlyWhenCancelled ==
    run = "returned" => (runErr.afterCancel <=> runErr.kind = "cancelled")

\* C15, amended: Run returns the cancellation error only when ctx is
\* cancelled; a return while ctx is not cancelled is a client or liveness
\* error.  A return after the cancellation may be any of the three.
C15_CancellationErrorOnlyWhenCancelled ==
    run = "returned" =>
        /\ runErr.kind = "cancelled" => runErr.afterCancel
        /\ ~runErr.afterCancel => runErr.kind \in {"client", "liveness"}
        /\ runErr.kind \in {"cancelled", "client", "liveness"}

\* Run has returned a subtask's error although ctx was already cancelled
C15_Witness ==
    /\ run = "returned"
    /\ runErr.afterCancel
    /\ runErr.kind = "client"

-----------------------------------------------------------------------------
(* Startup order *)

\* C19: the audio goroutine is spawned only after the data client has
\* signalled readiness, and the ticker and the supervision of errorChan
\* begin only after both goroutines have been spawned.
C19_StartupOrder ==
    /\ audioTask # "none" => ready /\ dataTask # "running"
    /\ (run = "supervise" \/ tick \/ toTick # TickPeriod \/ runErr # NoError) =>
           dataTask # "none" /\ audioTask # "none"

\* Run supervises, a tick is waiting, and both goroutines run after readiness
C19_Witness ==
    /\ run = "supervise"
    /\ tick
    /\ ready
    /\ dataTask = "serving"
    /\ audioTask = "running"

-----------------------------------------------------------------------------
(* Magnetic declination.  Angles are in tenths of a degree.  The outcome   *)
(* of the geomagnetic model for the point and the mission time is an input:*)
(* a value, and whether the model reported an error (the value is then     *)
(* whatever the model left in it).                                         *)

Angles == {-70, 0, 35}

ModelOutcomes == [value : Angles, err : BOOLEAN]

\* bearings.Declination passing the model's value on, also with an error
bearingsDeclinationKeepsValue(p, t, model) ==
    [declination |-> model.value, err |-> model.err]

\* bearings.Declination(p, t): the model's value, or 0 and the error
bearingsDeclination(p, t, model) ==
    IF model.err
    THEN [declination |-> 0, err |-> TRUE]
    ELSE [declination |-> model.value, err |-> FALSE]

\* scope.Declination(p): the error is logged, the angle returned as received
Declination(p, model) ==
    LET got == bearingsDeclination(p, missionTime, model)
    IN  [Angle |-> got.declination, Logged |-> got.err]

ProbeDeclination ==
    /\ handled.op # "declination"
    /\ LET got == Declination(declination.Point, declination.Model)
       IN  declination' = [declination EXCEPT !.Angle = got.Angle,
                                              !.Logged = got.Logged]
    /\ handled' = Did("declination", NoUpdate, {})
    /\ UNCHANGED <<contacts, missionTime, bullseyes, removalCallback, fadedCallback,
                   removedCalls, fadedCalls, seen, lastSet, probe>>
    /\ UNCHANGED <<srsVars, loop, fader>>

InitDeclination ==
    /\ RadarInit
    /\ SRSInit
    /\ loop = "new"
    /\ fader = "none"
    /\ declination \in [Point : QueryPoints, Model : ModelOutcomes,
                        Angle : {35}, Logged : {FALSE}]

NextDeclination ==
    \/ ProbeDeclination
    \/ \E t \in MissionTimes : SetMissionTime(t) /\ UNCHANGED taskVars

SpecDeclination == InitDeclination /\ [][NextDeclination]_vars

-----------------------------------------------------------------------------
(* The goroutines of scope.Run.  Run spawns a goroutine that runs          *)
(* collectFaded and then loops over a select.  loop is "new" before Run is *)
(* called, "select" while Run waits in the select, the name of a case while*)
(* Run executes that case, and "returned" after.  fader is "none" before   *)
(* the goroutine is spawned, "idle" while it waits for a fade, "fade"      *)
(* while it handles one, and "returned" after.  The content of a received  *)
(* event is settled where the event is handled.                            *)

LoopCases == {"start", "update", "gc", "recenter"}

LoopUpdates == {u \in UpdateEvents : u.Labels.ID = 1 /\ u.Labels.Coalition = "red"}

\* Run is called: go collectFaded, the tickers, and into the loop
RunScope ==
    /\ loop = "new"
    /\ loop' = "select"
    /\ fader' = "idle"
    /\ UNCHANGED <<radarVars, srsVars, declination>>

\* the select taking a case while Run executes another
LoopSelectReentrant(case) ==
    /\ loop \in {"select"} \cup (LoopCases \ {case})
    /\ loop' = case
    /\ UNCHANGED <<radarVars, srsVars, fader, declination>>

\* the select takes the case of a channel that is ready
LoopSelect(case) ==
    /\ loop = "select"
    /\ loop' = case
    /\ UNCHANGED <<radarVars, srsVars, fader, declination>>

\* the body of the case, and back to the select
LoopHandle ==
    /\ loop \in LoopCases
    /\ CASE loop = "start" -> HandleStart
         [] loop = "update" -> \E update \in LoopUpdates : HandleUpdate(update)
         [] loop = "gc" -> HandleGarbageCollection
         [] loop = "recenter" -> HandleRecenter
    /\ loop' = "select"
    /\ UNCHANGED <<fader, declination>>

\* case <-ctx.Done(), taken whether or not ctx is cancelled
LoopReturnEarly ==
    /\ loop = "select"
    /\ loop' = "returned"
    /\ UNCHANGED <<radarVars, srsVars, fader, declination>>

\* case <-ctx.Done(): return
LoopReturn ==
    /\ loop = "select"
    /\ ctx = "cancelled"
    /\ loop' = "returned"
    /\ UNCHANGED <<radarVars, srsVars, fader, declination>>

\* collectFaded receives a fade
FaderReceive ==
    /\ fader = "idle"
    /\ fader' = "fade"
    /\ UNCHANGED <<radarVars, srsVars, loop, declination>>

\* collectFaded handles the fade; a fade of a unit without trackfile does nothing
FaderHandle ==
    /\ fader = "fade"
    /\ \E id \in IDs :
          IF id \in DOMAIN contacts
          THEN HandleFaded(id)
          ELSE /\ handled' = Did("fade", NoUpdate, {})
               /\ UNCHANGED <<contacts, missionTime, bullseyes, removalCallback,
                              fadedCallback, removedCalls, fadedCalls, seen,
                              lastSet, probe, srsVars>>
    /\ fader' = "idle"
    /\ UNCHANGED <<loop, declination>>

\* collectFaded returns when ctx is cancelled
FaderReturn ==
    /\ fader = "idle"
    /\ ctx = "cancelled"
    /\ fader' = "returned"
    /\ UNCHANGED <<radarVars, srsVars, loop, declination>>

NextLoop ==
    \/ RunScope
    \/ \E case \in LoopCases : LoopSelect(case)
    \/ LoopHandle
    \/ LoopReturn
    \/ FaderReceive
    \/ FaderHandle
    \/ FaderReturn
    \/ \E t \in MissionTimes : SetMissionTime(t) /\ UNCHANGED taskVars
    \/ Cancel

SpecLoop == Init /\ [][NextLoop]_vars

SpecLoopFair ==
    /\ Init
    /\ [][NextLoop]_vars
    /\ WF_vars(RunScope)
    /\ WF_vars(LoopHandle)
    /\ SF_vars(LoopReturn)

\* C18: Run does not return before ctx is cancelled; once ctx is cancelled
\* and Run has been called, Run returns in the end, whatever events keep
\* arriving; and after Run has returned the loop handles no further event:
\* the contact database changes only through a fade.
C18_RunReturnsOnlyAndSurelyOnCancel ==
    /\ [](loop = "returned" => ctx = "cancelled")
    /\ [][loop = "returned" =>
            /\ loop' = "returned"
            /\ handled' # handled => handled'.op \in {"fade", "time"}
            /\ contacts' # contacts => handled'.op = "fade"]_vars
    /\ (ctx = "cancelled") ~> (loop = "returned")

\* Run has returned after the cancellation; the last event handled was an update
C18_Witness ==
    /\ loop = "returned"
    /\ ctx = "cancelled"
    /\ handled.op = "update"
    /\ DOMAIN contacts # {}

=============================================================================
